---- MODULE Spec2Model ----
(***************************************************************************)
(* Enginuity AI backend: the retrieval-augmented chat pipeline.            *)
(*   app/services/vector.py  : collection, index_sections, search          *)
(*   app/routers/chat.py     : _last_user_message, _build_context_block,   *)
(*                             _llm_answer, chat                           *)
(*   app/models/schemas.py   : ChatMessage, ChatRequest, ChatResponse      *)
(*                                                                         *)
(* Text is a sequence of tokens: a token is one character ("a", " ") or a  *)
(* literal fragment of the source (a fixed sentence, a formatted number).  *)
(* Concatenation is \o, slicing is SubSeq.  Floats are integers counted in *)
(* hundredths (distance 0.50 is 50, score 1.0 is 100).                     *)
(***************************************************************************)
EXTENDS Integers, Sequences, FiniteSets, Bags, TLC

VARIABLES
    col,        \* the "enginuity" collection: bag of entries [id, document, metadata]
    colExists,  \* whether the collection has been created (lazily, by collection())
    openai,     \* module-level _openai: TRUE when a client is configured
    last,       \* the last operation called, with its arguments
    ret,        \* what the last operation returned (or the error it raised)
    calls,      \* calls the last operation made to its collaborators, in order
    colBefore,  \* col as it was when the last operation started
    reps,       \* how many times in a row the last operation was called with these arguments (capped at 2)
    inflight,   \* a call received and not yet run, or NoRequest
    session,    \* st.session_state of the browser session a page script runs for
    files,      \* the JSONL files the pages append to, as sequences of records
    env         \* what surrounds a page script: whether httpx was imported, and how many
                \* prompts and failed backend calls the run has had (for the bounds)

vars == <<col, colExists, openai, last, ret, calls, colBefore, reps, inflight,
          session, files, env>>

\* the state of the backend service, and the state of the Streamlit pages
backendVars == <<col, colExists, openai, last, ret, calls, colBefore, reps, inflight>>
pageVars == <<session, files, env>>

----------------------------------------------------------------------------
(* Bounds *)

MaxIds == 2        \* distinct section ids
MaxMsgs == 2       \* messages of a chat request
MaxHistory == 9    \* messages of a history handed to _llm_answer directly
MaxTopK == 3       \* top_k of a direct search call
MaxHits == 3       \* hits handed to _build_context_block directly
MaxCallers == 2    \* index_sections/search calls running at the same time
MaxPrompts == 32   \* prompts submitted on the chat page in one run
MaxFailures == 1   \* backend calls of the chat page that fail in one run
MaxSubmits == 2    \* clicks on Submit on the quiz page in one run
MaxGenerates == 2  \* quizzes generated on the quiz page in one run

----------------------------------------------------------------------------
(* Python values *)

\* dict values of a hit / of a message: a string, a number, None, or a missing key
PyStr(s) == [t |-> "str", s |-> s, n |-> 0]
PyNum(n) == [t |-> "num", s |-> <<>>, n |-> n]
PyNone == [t |-> "none", s |-> <<>>, n |-> 0]

\* ChatMessage.content: a plain string, or a structured value with or without a "text" key
Plain(s) == [kind |-> "str", has_text |-> FALSE, text |-> s]
Structured(s) == [kind |-> "dict", has_text |-> TRUE, text |-> s]
StructuredNoText == [kind |-> "dict", has_text |-> FALSE, text |-> <<>>]

ChatMessage(role, content) == [role |-> role, content |-> content]

Whitespace == {" ", "\n"}

RECURSIVE lstrip(_)
lstrip(s) ==
    IF s # <<>> /\ Head(s) \in Whitespace THEN lstrip(Tail(s)) ELSE s

RECURSIVE rstrip(_)
rstrip(s) ==
    IF s # <<>> /\ s[Len(s)] \in Whitespace THEN rstrip(SubSeq(s, 1, Len(s) - 1)) ELSE s

\* str.strip()
strip(s) == rstrip(lstrip(s))

Min(a, b) == IF a < b THEN a ELSE b
Max(a, b) == IF a > b THEN a ELSE b

\* seq[-n:]
LastN(seq, n) == SubSeq(seq, Max(1, Len(seq) - n + 1), Len(seq))

\* seq[:n]
FirstN(seq, n) == SubSeq(seq, 1, Min(n, Len(seq)))

----------------------------------------------------------------------------
(* app/services/vector.py *)

SectionIds == {<<"sec-", ToString(i)>> : i \in 1..MaxIds}
Contents == {<<"x">>, <<"y">>}
LectureTitles == {<<"A">>, <<"B">>}

Section(id, content) == [id |-> id, content |-> content]

RECURSIVE SeqsUpTo(_, _)
\* all sequences over S of length at most n
SeqsUpTo(S, n) ==
    IF n = 0 THEN {<<>>}
    ELSE LET shorter == SeqsUpTo(S, n - 1)
         IN shorter \cup {Append(q, e) : q \in shorter, e \in S}

Distinct(q, f(_)) == \A i, j \in DOMAIN q : f(q[i]) = f(q[j]) => i = j

SecIdOf(s) == s.id

\* the section lists index_sections accepts: non-empty, ids distinct (its precondition)
SectionLists ==
    {S \in SeqsUpTo({Section(i, c) : i \in SectionIds, c \in Contents}, MaxIds) :
        S # <<>> /\ Distinct(S, SecIdOf)}

IndexEntry(id, doc, meta) == [id |-> id, document |-> doc, metadata |-> meta]

\* the collection is a bag of entries: the store keeps no order among them
EmptyCol == EmptyBag

\* the entries of collection c stored under id
EntriesOf(c, id) == {e \in BagToSet(c) : e.id = id}

\* how many entries collection c holds under id
CountOf(c, id) == BagCardinality([e \in EntriesOf(c, id) |-> c[e]])

\* mutant: add() in place of upsert(): never replaces
col_add_one(c, e) == c (+) SetToBag({e})

\* mutant: the write starts from a fresh collection
col_replace_all(c, e) == SetToBag({e})

\* mutant: an entry replaces only what its own lecture stored under the id
col_upsert_one_per_lecture(c, e) ==
    [x \in {y \in BagToSet(c) : y.id # e.id \/ y.metadata.title # e.metadata.title} |-> c[x]]
    (+) SetToBag({e})

\* Collection.upsert of one entry: whatever is stored under its id is replaced by it
col_upsert_one(c, e) ==
    [x \in {y \in BagToSet(c) : y.id # e.id} |-> c[x]] (+) SetToBag({e})

RECURSIVE col_upsert(_, _, _, _)
\* Collection.upsert(ids, documents, metadatas): entry by entry, in order
col_upsert(c, ids, docs, metas) ==
    IF ids = <<>> THEN c
    ELSE col_upsert(col_upsert_one(c, IndexEntry(Head(ids), Head(docs), Head(metas))),
                    Tail(ids), Tail(docs), Tail(metas))

\* mutant: the section id is written as the title too
index_sections_result_id_as_title(c, lecture_title, sections) ==
    LET ids == [i \in DOMAIN sections |-> sections[i].id]
        docs == [i \in DOMAIN sections |-> sections[i].content]
        metas == [i \in DOMAIN sections |->
                    [title |-> PyStr(sections[i].id),
                     section_id |-> PyStr(sections[i].id)]]
    IN col_upsert(c, ids, docs, metas)

\* the store after index_sections(lecture_title, sections) on collection c
index_sections_result(c, lecture_title, sections) ==
    LET ids == [i \in DOMAIN sections |-> sections[i].id]
        docs == [i \in DOMAIN sections |-> sections[i].content]
        metas == [i \in DOMAIN sections |->
                    [title |-> PyStr(lecture_title),
                     section_id |-> PyStr(sections[i].id)]]
    IN col_upsert(c, ids, docs, metas)

NoRequest == [op |-> "none"]

\* no page script is running: nothing in the session, no file written
NoSession == [page |-> "none"]
NoFiles == [attempts |-> <<>>, snapshots |-> <<>>]
NoEnv == [httpx |-> FALSE, prompts |-> 0, failures |-> 0, submits |-> 0]
NoPage == session = NoSession /\ files = NoFiles /\ env = NoEnv

Returned(text, hits) == [status |-> "ok", detail |-> "", text |-> text, hits |-> hits]
Raised(status, detail) == [status |-> status, detail |-> detail, text |-> <<>>, hits |-> <<>>]
NoReturn == Returned(<<>>, <<>>)

SameCall(op) == IF last = op THEN 2 ELSE 1

\* index_sections(lecture_title, sections): collection() then upsert
index_sections(lecture_title, sections) ==
    /\ col' = index_sections_result(col, lecture_title, sections)
    /\ colExists' = TRUE
    /\ last' = [op |-> "index_sections", title |-> lecture_title, sections |-> sections]
    /\ reps' = SameCall(last')
    /\ colBefore' = col
    /\ ret' = NoReturn
    /\ calls' = <<>>
    /\ UNCHANGED <<openai, inflight>>
    /\ UNCHANGED pageVars

\* dict.get(key, default): the default only when the key is missing
PyAbsent == [t |-> "absent", s |-> <<>>, n |-> 0]
dict_get(v, default) == IF v.t = "absent" THEN default ELSE v

SnippetLen == 280

\* the one-character truncation marker, U+2026
Ellipsis == "<U+2026>"

\* distances the store may report, in hundredths (the metric is not bounded by 1)
DistSet == {0, 50, 150}

Ascending(d) == \A i, j \in DOMAIN d : i < j => d[i] <= d[j]

Injective(p) == \A i, j \in DOMAIN p : p[i] = p[j] => i = j

MaxCopies(c) == IF BagToSet(c) = {} THEN 0
                ELSE CHOOSE m \in {c[e] : e \in BagToSet(c)} : \A e \in BagToSet(c) : c[e] <= m

\* Collection.query(query_texts=[q], n_results): the nearest entries, best first, as
\* parallel lists. Which entries are nearest is the embedding's business: any choice
\* of min(n_results, count) distinct entries, with distances that do not decrease;
\* a store that reports no distances leaves them out.
QueryResults(c, n_results) ==
    LET k == Min(n_results, BagCardinality(c))
        slots == {<<e, j>> : e \in BagToSet(c), j \in 1..MaxCopies(c)}
        stored == {sl \in slots : sl[2] <= c[sl[1]]}
        picks == {p \in [1..k -> stored] : Injective(p)}
        res(p, d, has) ==
            [documents |-> [i \in 1..k |-> p[i][1].document],
             metadatas |-> [i \in 1..k |-> p[i][1].metadata],
             has_distances |-> has,
             distances |-> d]
    IN {res(p, d, TRUE) : p \in picks, d \in {e \in [1..k -> DistSet] : Ascending(e)}}
       \cup {res(p, <<>>, FALSE) : p \in picks}

\* mutant: a missing distance scores 0.0
hit_score_zero_default(doc, meta, dist) ==
    [title |-> PyStr(<<"Match">>),
     snippet |-> PyStr(FirstN(doc, SnippetLen)
                       \o (IF Len(doc) > SnippetLen THEN <<Ellipsis>> ELSE <<>>)),
     document |-> PyStr(doc),
     score |-> IF dist.t # "none" THEN PyNum(100 - dist.n) ELSE PyNum(0),
     section_id |-> dict_get(meta.section_id, PyNone),
     source |-> dict_get(meta.title, PyStr(<<"Notes">>))]

\* mutant: the distance is passed on as the score
hit_score_is_distance(doc, meta, dist) ==
    [title |-> PyStr(<<"Match">>),
     snippet |-> PyStr(FirstN(doc, SnippetLen)
                       \o (IF Len(doc) > SnippetLen THEN <<Ellipsis>> ELSE <<>>)),
     document |-> PyStr(doc),
     score |-> IF dist.t # "none" THEN PyNum(dist.n) ELSE PyNone,
     section_id |-> dict_get(meta.section_id, PyNone),
     source |-> dict_get(meta.title, PyStr(<<"Notes">>))]

\* mutant: a document of exactly 280 characters is marked as truncated
hit_marks_at_limit(doc, meta, dist) ==
    [title |-> PyStr(<<"Match">>),
     snippet |-> PyStr(FirstN(doc, SnippetLen)
                       \o (IF Len(doc) >= SnippetLen THEN <<Ellipsis>> ELSE <<>>)),
     document |-> PyStr(doc),
     score |-> IF dist.t # "none" THEN PyNum(100 - dist.n) ELSE PyNone,
     section_id |-> dict_get(meta.section_id, PyNone),
     source |-> dict_get(meta.title, PyStr(<<"Notes">>))]

\* one iteration of the loop of search: the hit for (doc, meta, dist)
hit(doc, meta, dist) ==
    [title |-> PyStr(<<"Match">>),
     snippet |-> PyStr(FirstN(doc, SnippetLen)
                       \o (IF Len(doc) > SnippetLen THEN <<Ellipsis>> ELSE <<>>)),
     document |-> PyStr(doc),
     score |-> IF dist.t # "none" THEN PyNum(100 - dist.n) ELSE PyNone,
     section_id |-> dict_get(meta.section_id, PyNone),
     source |-> dict_get(meta.title, PyStr(<<"Notes">>))]

\* mutant: the hits are returned worst first
search_hits_reversed(res) ==
    IF res.documents = <<>> THEN <<>>
    ELSE LET docs == res.documents
             metas == res.metadatas
             dists == IF res.has_distances
                      THEN [i \in DOMAIN res.distances |-> PyNum(res.distances[i])]
                      ELSE [i \in DOMAIN docs |-> PyNone]
             n == Min(Len(docs), Min(Len(metas), Len(dists)))
         IN [i \in 1..n |-> hit(docs[n + 1 - i], metas[n + 1 - i], dists[n + 1 - i])]

\* the list search builds from the store's answer res
search_hits(res) ==
    IF res.documents = <<>> THEN <<>>
    ELSE LET docs == res.documents
             metas == res.metadatas
             dists == IF res.has_distances
                      THEN [i \in DOMAIN res.distances |-> PyNum(res.distances[i])]
                      ELSE [i \in DOMAIN docs |-> PyNone]
             n == Min(Len(docs), Min(Len(metas), Len(dists)))   \* zip
         IN [i \in 1..n |-> hit(docs[i], metas[i], dists[i])]

Queries == {<<"q">>}

\* a call to a collaborator, as the caller saw it: its arguments, whether it returned
\* (ok) or raised, and the hits made of its answer
StoreCall(q, k, hits) ==
    [to |-> "store.query", question |-> q, top_k |-> k, payload |-> <<>>, temperature |-> 0,
     ok |-> TRUE, hits |-> hits]

\* the query search sends to the collection, and the answer res it got
QueryCall(q, n_results, res) ==
    [to |-> "col.query", question |-> q, top_k |-> n_results, ok |-> TRUE, res |-> res]

\* mutant: search keeps the query text as an entry of the collection
search_stores_query(q, top_k) ==
    \E res \in QueryResults(col, top_k) :
        /\ ret' = Returned(<<>>, search_hits(res))
        /\ calls' = <<QueryCall(q, top_k, res)>>
        /\ colExists' = TRUE
        /\ col' = col_upsert_one(col, IndexEntry(q, q, [title |-> PyStr(<<"query">>),
                                                         section_id |-> PyStr(q)]))
        /\ last' = [op |-> "search", q |-> q, top_k |-> top_k]
        /\ reps' = SameCall(last')
        /\ colBefore' = col
        /\ UNCHANGED <<openai, inflight>>
    /\ UNCHANGED pageVars

\* search(q, top_k): collection(), query, normalise
search(q, top_k) ==
    \E res \in QueryResults(col, top_k) :
        /\ ret' = Returned(<<>>, search_hits(res))
        /\ calls' = <<QueryCall(q, top_k, res)>>
        /\ colExists' = TRUE
        /\ col' = col
        /\ last' = [op |-> "search", q |-> q, top_k |-> top_k]
        /\ reps' = SameCall(last')
        /\ colBefore' = col
        /\ UNCHANGED <<openai, inflight>>
    /\ UNCHANGED pageVars

----------------------------------------------------------------------------
(* app/routers/chat.py *)

SYSTEM_PROMPT == <<"You are Enginuity AI ... not in the context.">>
NO_INFO == <<"I could not find any relevant information in the lecture notes.">>
NOT_CONFIGURED == <<"Model access is not configured. But based on your notes:", "\n", "\n">>
CONTEXT_HEADER == <<"CONTEXT FROM NOTES:", "\n", "\n">>
FOCUS == <<"Using ONLY the lecture context above, answer this question:", "\n", "\n">>

\* ChatMessage.model_dump(): the message as a plain dict
msg_to_plain_dict(msg) == [role |-> msg.role, content |-> msg.content]

\* str(content.get("text", "")) for a dict, str(content) otherwise
content_str(content) ==
    IF content.kind = "dict"
    THEN (IF content.has_text THEN content.text ELSE <<>>)
    ELSE content.text

RECURSIVE first_user_message(_)
\* mutant: scans forward, the oldest user message wins
first_user_message(messages) ==
    IF messages = <<>> THEN <<>>
    ELSE LET m == msg_to_plain_dict(Head(messages))
         IN IF m.role = "user" THEN content_str(m.content)
            ELSE first_user_message(Tail(messages))

RECURSIVE last_nonblank_user_message(_)
\* mutant: user messages without text are passed over
last_nonblank_user_message(messages) ==
    IF messages = <<>> THEN <<>>
    ELSE LET m == msg_to_plain_dict(messages[Len(messages)])
         IN IF m.role = "user" /\ strip(content_str(m.content)) # <<>>
            THEN content_str(m.content)
            ELSE last_nonblank_user_message(SubSeq(messages, 1, Len(messages) - 1))

RECURSIVE last_user_message(_)
\* _last_user_message: scan reversed(messages), return at the first user message
last_user_message(messages) ==
    IF messages = <<>> THEN <<>>
    ELSE LET m == msg_to_plain_dict(messages[Len(messages)])
         IN IF m.role = "user" THEN content_str(m.content)
            ELSE last_user_message(SubSeq(messages, 1, Len(messages) - 1))

\* bool(v) of a dict value
truthy(v) ==
    \/ v.t = "str" /\ v.s # <<>>
    \/ v.t = "num" /\ v.n # 0

\* x or y
py_or(x, y) == IF truthy(x) THEN x ELSE y

\* how an f-string renders a value
fmt(v) ==
    CASE v.t = "str" -> v.s
      [] v.t = "num" -> <<ToString(v.n)>>
      [] OTHER -> <<"None">>

\* f"{score:.2f}" of a number in hundredths
fmt2(n) ==
    LET a == IF n < 0 THEN 0 - n ELSE n
    IN (IF n < 0 THEN <<"-">> ELSE <<>>)
       \o <<ToString(a \div 100), ".", ToString((a % 100) \div 10), ToString(a % 10)>>

\* the header line of the idx-th hit
context_header(idx, h) ==
    LET sec == dict_get(h.section_id, PyStr(<<"match-", ToString(idx)>>))
        source == dict_get(h.source, PyStr(<<"Notes">>))
        score == dict_get(h.score, PyNone)
    IN <<"[">> \o fmt(sec) \o <<" | ">> \o fmt(source)
       \o (IF score.t # "none" THEN <<" | score=">> \o fmt2(score.n) ELSE <<>>)
       \o <<"]">>

\* h.get("document") or h.get("snippet") or ""
context_body(h) ==
    py_or(py_or(dict_get(h.document, PyNone), dict_get(h.snippet, PyNone)), PyStr(<<>>)).s

context_part(idx, h) == context_header(idx, h) \o <<"\n">> \o context_body(h) \o <<"\n">>

RECURSIVE join(_, _)
\* sep.join(parts)
join(parts, sep) ==
    IF parts = <<>> THEN <<>>
    ELSE IF Len(parts) = 1 THEN parts[1]
    ELSE parts[1] \o sep \o join(Tail(parts), sep)

\* mutant: a hit whose body is empty gets no block
build_context_block_skips_empty(hits) ==
    LET kept == SelectSeq(hits, LAMBDA h : context_body(h) # <<>>)
    IN IF kept = <<>> THEN <<>>
       ELSE join([i \in DOMAIN kept |-> context_part(i, kept[i])], <<"\n", "\n">>)

\* mutant: the blocks are numbered on from the calls made so far
build_context_block_counting(hits) ==
    IF hits = <<>> THEN <<>>
    ELSE join([i \in DOMAIN hits |-> context_part(i + reps, hits[i])], <<"\n", "\n">>)

\* mutant: the blocks are joined last hit first
build_context_block_reversed(hits) ==
    IF hits = <<>> THEN <<>>
    ELSE join([i \in DOMAIN hits |-> context_part(i, hits[Len(hits) + 1 - i])],
              <<"\n", "\n">>)

\* _build_context_block(hits)
build_context_block(hits) ==
    IF hits = <<>> THEN <<>>
    ELSE join([i \in DOMAIN hits |-> context_part(i, hits[i])], <<"\n", "\n">>)

BuildContextCall(hits) == [op |-> "build_context", hits |-> hits]

\* a direct call of _build_context_block on the caller's list of hits; the function
\* reads the list (enumerate, dict.get) and assigns only to its own locals, so the
\* caller still holds the list as it was and may call again with it
build_context ==
    /\ inflight.op = "build_context"
    /\ reps < 2
    /\ ret' = Returned(build_context_block(inflight.hits), <<>>)
    /\ calls' = <<>>
    /\ last' = inflight
    /\ reps' = SameCall(inflight)
    /\ colBefore' = col
    /\ UNCHANGED <<col, colExists, openai, inflight>>
    /\ UNCHANGED pageVars

HistoryWindow == 8

PayloadMessage(role, content) == [role |-> role, content |-> content]

\* mutant: the window is taken from the start of the history
trimmed_messages_oldest(history) ==
    LET window == FirstN(history, HistoryWindow)
    IN [i \in DOMAIN window |->
            LET m == msg_to_plain_dict(window[i])
            IN PayloadMessage(m.role, content_str(m.content))]

\* the loop of _llm_answer over history[-8:]
trimmed_messages(history) ==
    LET window == LastN(history, HistoryWindow)
    IN [i \in DOMAIN window |->
            LET m == msg_to_plain_dict(window[i])
            IN PayloadMessage(m.role, content_str(m.content))]

\* mutant: the context message is placed after the history
messages_payload_context_late(question, context_block, history) ==
    <<PayloadMessage("system", SYSTEM_PROMPT)>>
    \o trimmed_messages(history)
    \o <<PayloadMessage("system", CONTEXT_HEADER \o context_block),
         PayloadMessage("user", FOCUS \o question)>>

\* messages_payload of _llm_answer
messages_payload(question, context_block, history) ==
    <<PayloadMessage("system", SYSTEM_PROMPT),
      PayloadMessage("system", CONTEXT_HEADER \o context_block)>>
    \o trimmed_messages(history)
    \o <<PayloadMessage("user", FOCUS \o question)>>

\* what chat.completions.create may do: raise, or answer with some content (or none)
LlmOutcomes ==
    {[ok |-> FALSE, content |-> PyNone],
     [ok |-> TRUE, content |-> PyNone],
     [ok |-> TRUE, content |-> PyStr(<<" ", "answer", "\n">>)]}

LlmCall(payload, temperature, ok) ==
    [to |-> "openai.create", question |-> <<>>, top_k |-> 0,
     payload |-> payload, temperature |-> temperature, ok |-> ok, hits |-> <<>>]

\* mutant: the fallback leaves the context out
llm_fallback_no_context(context_block) ==
    IF context_block = <<>> THEN NO_INFO ELSE NOT_CONFIGURED

\* the fallback branch of _llm_answer, taken when _openai is not set
llm_fallback(context_block) ==
    IF context_block = <<>> THEN NO_INFO ELSE NOT_CONFIGURED \o context_block

\* mutant: a failing model call is answered with the fallback text
llm_answer_swallows(configured, question, context_block, history, temperature, llm) ==
    IF ~configured
    THEN [raised |-> FALSE, text |-> llm_fallback(context_block), calls |-> <<>>]
    ELSE LET payload == messages_payload(question, context_block, history)
             made == <<LlmCall(payload, temperature, llm.ok)>>
         IN IF ~llm.ok
            THEN [raised |-> FALSE, text |-> llm_fallback(context_block), calls |-> made]
            ELSE [raised |-> FALSE,
                  text |-> strip(py_or(llm.content, PyStr(<<>>)).s),
                  calls |-> made]

\* _llm_answer(question, context_block, history, temperature), the model call ending
\* as llm says: the text returned or the exception raised, and the calls made
llm_answer(configured, question, context_block, history, temperature, llm) ==
    IF ~configured
    THEN [raised |-> FALSE, text |-> llm_fallback(context_block), calls |-> <<>>]
    ELSE LET payload == messages_payload(question, context_block, history)
             made == <<LlmCall(payload, temperature, llm.ok)>>
         IN IF ~llm.ok
            THEN [raised |-> TRUE, text |-> <<>>, calls |-> made]
            ELSE [raised |-> FALSE,
                  text |-> strip(py_or(llm.content, PyStr(<<>>)).s),
                  calls |-> made]

TopKFloor == 1
TopKCeiling == 15
DefaultTopK == 5
DefaultTemperature == 20

\* max(1, min(int(req.top_k or 5), 15)), or 5 when int() raises
clamp_top_k(top_k) ==
    LET v == py_or(top_k, PyNum(DefaultTopK))
    IN IF v.t = "num" THEN Max(TopKFloor, Min(v.n, TopKCeiling)) ELSE DefaultTopK

\* float(req.temperature or 0.2)
request_temperature(temperature) == py_or(temperature, PyNum(DefaultTemperature)).n

ChatRequest(messages, top_k, temperature) ==
    [op |-> "chat", messages |-> messages, top_k |-> top_k, temperature |-> temperature]

\* mutant: the question is tested without being stripped
chat_rejection_unstripped(req) ==
    IF req.messages = <<>> THEN "No messages provided."
    ELSE IF last_user_message(req.messages) = <<>> THEN "Empty question."
    ELSE ""

\* the checks chat makes before it retrieves: the detail of the 400 it raises, or ""
chat_rejection(req) ==
    IF req.messages = <<>> THEN "No messages provided."
    ELSE IF strip(last_user_message(req.messages)) = <<>> THEN "Empty question."
    ELSE ""

\* mutant: only the hits that carry a score are cited
chat_served_scored_only(req, configured, res, llm) ==
    LET question == last_user_message(req.messages)
        top_k == clamp_top_k(req.top_k)
        hits == search_hits(res)
        context_block == build_context_block(hits)
        answer == llm_answer(configured, question, context_block, req.messages,
                             request_temperature(req.temperature), llm)
        made == <<StoreCall(question, top_k, hits)>> \o answer.calls
    IN IF answer.raised
       THEN [ret |-> Raised("500", "GenerationError"), calls |-> made]
       ELSE [ret |-> Returned(answer.text, SelectSeq(hits, LAMBDA h : h.score.t # "none")),
             calls |-> made]

\* mutant: the context is assembled from the best hit alone
chat_served_context_first_hit(req, configured, res, llm) ==
    LET question == last_user_message(req.messages)
        top_k == clamp_top_k(req.top_k)
        hits == search_hits(res)
        context_block == build_context_block(FirstN(hits, 1))
        answer == llm_answer(configured, question, context_block, req.messages,
                             request_temperature(req.temperature), llm)
        made == <<StoreCall(question, top_k, hits)>> \o answer.calls
    IN IF answer.raised
       THEN [ret |-> Raised("500", "GenerationError"), calls |-> made]
       ELSE [ret |-> Returned(answer.text, hits), calls |-> made]

\* chat(req) past its checks, when the store answers res and the model call ends as llm
chat_served(req, configured, res, llm) ==
    LET question == last_user_message(req.messages)
        top_k == clamp_top_k(req.top_k)
        hits == search_hits(res)
        context_block == build_context_block(hits)
        answer == llm_answer(configured, question, context_block, req.messages,
                             request_temperature(req.temperature), llm)
        made == <<StoreCall(question, top_k, hits)>> \o answer.calls
    IN IF answer.raised
       THEN [ret |-> Raised("500", "GenerationError"), calls |-> made]
       ELSE [ret |-> Returned(answer.text, hits), calls |-> made]

\* mutant: the store is queried before the question is checked
chat_validates_late ==
    /\ inflight.op = "chat"
    /\ IF chat_rejection(inflight) # ""
       THEN \E res \in QueryResults(col, clamp_top_k(inflight.top_k)) :
                /\ ret' = Raised("400", chat_rejection(inflight))
                /\ calls' = <<StoreCall(last_user_message(inflight.messages),
                                        clamp_top_k(inflight.top_k), search_hits(res))>>
                /\ colExists' = TRUE
       ELSE \E res \in QueryResults(col, clamp_top_k(inflight.top_k)), llm \in LlmOutcomes :
                LET r == chat_served(inflight, openai, res, llm)
                IN /\ ret' = r.ret
                   /\ calls' = r.calls
                   /\ colExists' = TRUE
    /\ last' = inflight
    /\ reps' = SameCall(inflight)
    /\ inflight' = NoRequest
    /\ colBefore' = col
    /\ UNCHANGED <<col, openai>>
    /\ UNCHANGED pageVars

\* POST /chat: the handler runs the request in flight
chat ==
    /\ inflight.op = "chat"
    /\ IF chat_rejection(inflight) # ""
       THEN /\ ret' = Raised("400", chat_rejection(inflight))
            /\ calls' = <<>>
            /\ colExists' = colExists
       ELSE \E res \in QueryResults(col, clamp_top_k(inflight.top_k)), llm \in LlmOutcomes :
                LET r == chat_served(inflight, openai, res, llm)
                IN /\ ret' = r.ret
                   /\ calls' = r.calls
                   /\ colExists' = TRUE
    /\ last' = inflight
    /\ reps' = SameCall(inflight)
    /\ inflight' = NoRequest
    /\ colBefore' = col
    /\ UNCHANGED <<col, openai>>
    /\ UNCHANGED pageVars

GenerateCall(question, context_block, history, temperature) ==
    [op |-> "llm_answer", question |-> question, context_block |-> context_block,
     history |-> history, temperature |-> temperature]

\* a direct call of _llm_answer with the arguments in flight
generate ==
    /\ inflight.op = "llm_answer"
    /\ \E llm \in LlmOutcomes :
        LET a == llm_answer(openai, inflight.question, inflight.context_block,
                            inflight.history, inflight.temperature, llm)
        IN /\ ret' = IF a.raised THEN Raised("raised", "GenerationError")
                     ELSE Returned(a.text, <<>>)
           /\ calls' = a.calls
    /\ last' = inflight
    /\ reps' = SameCall(inflight)
    /\ inflight' = NoRequest
    /\ colBefore' = col
    /\ UNCHANGED <<col, colExists, openai>>
    /\ UNCHANGED pageVars

----------------------------------------------------------------------------
(* Inputs *)

UserA == ChatMessage("user", Plain(<<"a", " ">>))
UserBlank == ChatMessage("user", Plain(<<" ">>))
UserB == ChatMessage("user", Structured(<<"b">>))
UserNoText == ChatMessage("user", StructuredNoText)
AssistantC == ChatMessage("assistant", Plain(<<"c">>))

MessageKinds == {UserA, UserBlank, UserB, UserNoText, AssistantC}

\* top_k of a request: missing, garbage, and integers around the clamp's edges
TopKs == {PyNone, PyStr(<<"many">>), PyNum(-1), PyNum(0), PyNum(1), PyNum(7),
          PyNum(15), PyNum(16)}

\* temperature of a request: missing, 0.0, 0.7
Temperatures == {PyNone, PyNum(0), PyNum(70)}

ChatRequests ==
    {ChatRequest(m, k, t) : m \in SeqsUpTo(MessageKinds, MaxMsgs), k \in TopKs,
                            t \in Temperatures}

Lecture == <<Section(<<"sec-", "1">>, <<"x">>), Section(<<"sec-", "2">>, <<"y">>)>>

\* the stores a chat or a search runs against: never indexed, or holding one lecture
IndexedStores == {EmptyCol, index_sections_result(EmptyCol, <<"A">>, Lecture)}

\* a document of n characters
Doc(n) == [i \in 1..n |-> "z"]

\* a lecture whose documents are just under, at and just over the snippet length
LongLecture ==
    <<Section(<<"sec-", "1">>, Doc(SnippetLen - 1)), Section(<<"sec-", "2">>, Doc(SnippetLen)),
      Section(<<"sec-", "3">>, Doc(SnippetLen + 1))>>

\* the index_sections calls whose outcome a search runs against: lecture A into an empty
\* collection, one section of it indexed again under lecture B, a lecture of long documents
IndexCalls ==
    LET call(c, L, S) == [before |-> c, title |-> L, sections |-> S]
        storeA == index_sections_result(EmptyCol, <<"A">>, Lecture)
    IN {call(EmptyCol, <<"A">>, Lecture),
        call(storeA, <<"B">>, <<Section(<<"sec-", "1">>, <<"y">>)>>),
        call(EmptyCol, <<"A">>, LongLecture)}

SearchStores ==
    {EmptyCol}
    \cup {index_sections_result(ic.before, ic.title, ic.sections) : ic \in IndexCalls}

\* hit dicts handed to _build_context_block: as search makes them (with and without a
\* score, with a score below zero, with a null section_id when the entry's metadata has
\* none, with an empty document), and a dict that carries a snippet only
ContextHits ==
    LET meta == [title |-> PyStr(<<"A">>), section_id |-> PyStr(<<"sec-", "1">>)]
        unlabelled == [title |-> PyStr(<<"A">>), section_id |-> PyAbsent]
        bare == [title |-> PyStr(<<"Match">>), snippet |-> PyStr(<<"s">>),
                 document |-> PyAbsent, score |-> PyAbsent, section_id |-> PyAbsent,
                 source |-> PyAbsent]
    IN {hit(<<"x">>, meta, PyNum(50)), hit(<<"y">>, meta, PyNone),
        hit(<<"x">>, meta, PyNum(150)), hit(<<"x">>, unlabelled, PyNum(50)),
        hit(<<>>, meta, PyNum(0)), bare}

BuildContextCalls == {BuildContextCall(h) : h \in SeqsUpTo(ContextHits, MaxHits)}

Roles == <<"user", "assistant", "system">>

\* the i-th message of a generated history: roles and content shapes rotate, the text
\* names the position
HistoryMessage(i, shift) ==
    LET r == ((i + shift) % 3) + 1
        text == <<"m", ToString(i)>>
    IN ChatMessage(Roles[r],
                   CASE r = 1 -> Plain(text) [] r = 2 -> Structured(text)
                     [] OTHER -> StructuredNoText)

Histories ==
    {[i \in 1..n |-> HistoryMessage(i, shift)] : n \in 0..MaxHistory, shift \in 0..2}

ContextBlocks ==
    {<<>>, build_context_block(<<hit(<<"x">>, [title |-> PyStr(<<"A">>),
                                              section_id |-> PyStr(<<"sec-", "1">>)],
                                   PyNum(50))>>)}

GenerateCalls ==
    {GenerateCall(q, c, h, t) : q \in {<<"a">>, <<"b", "?">>}, c \in ContextBlocks,
                                h \in Histories, t \in {0, 20}}

----------------------------------------------------------------------------
Init ==
    /\ col = EmptyCol
    /\ colExists = FALSE
    /\ openai = FALSE
    /\ last = NoRequest
    /\ inflight = NoRequest
    /\ ret = NoReturn
    /\ calls = <<>>
    /\ colBefore = EmptyCol
    /\ reps = 0
    /\ NoPage

Next ==
    \/ \E L \in LectureTitles, S \in SectionLists : index_sections(L, S)

Spec == Init /\ [][Next]_vars

\* the chat endpoint: a request in flight against an indexed (or empty) store
InitChat ==
    /\ col \in IndexedStores
    /\ colExists = (col # EmptyCol)
    /\ openai \in BOOLEAN
    /\ last = NoRequest
    /\ inflight \in ChatRequests
    /\ ret = NoReturn
    /\ calls = <<>>
    /\ colBefore = col
    /\ reps = 0
    /\ NoPage

NextChat == chat

SpecChat == InitChat /\ [][NextChat]_vars

\* the generator alone: a call of _llm_answer in flight
InitGen ==
    /\ col = EmptyCol
    /\ colExists = FALSE
    /\ openai \in BOOLEAN
    /\ last = NoRequest
    /\ inflight \in GenerateCalls
    /\ ret = NoReturn
    /\ calls = <<>>
    /\ colBefore = col
    /\ reps = 0
    /\ NoPage

NextGen == generate

SpecGen == InitGen /\ [][NextGen]_vars

\* the search endpoint: queries against an indexed (or empty) store
InitSearch ==
    /\ col \in SearchStores
    /\ colExists = (col # EmptyCol)
    /\ openai = FALSE
    /\ last = NoRequest
    /\ inflight = NoRequest
    /\ ret = NoReturn
    /\ calls = <<>>
    /\ colBefore = col
    /\ reps = 0
    /\ NoPage

NextSearch == \E q \in Queries, k \in 1..MaxTopK : search(q, k)

SpecSearch == InitSearch /\ [][NextSearch]_vars

\* the Context Assembler alone: a call of _build_context_block in flight
InitCtx ==
    /\ col = EmptyCol
    /\ colExists = FALSE
    /\ openai = FALSE
    /\ last = NoRequest
    /\ inflight \in BuildContextCalls
    /\ ret = NoReturn
    /\ calls = <<>>
    /\ colBefore = col
    /\ reps = 0
    /\ NoPage

NextCtx == build_context

SpecCtx == InitCtx /\ [][NextCtx]_vars

----------------------------------------------------------------------------
(* pages/60_Chat.py *)

ChatSizeLimit == 60

\* a message of st.session_state["messages"]; a user message has no citations key
PageMessage(role, content, has_citations, citations) ==
    [role |-> role, content |-> content, has_citations |-> has_citations,
     citations |-> citations]

Greeting == PageMessage("assistant", Plain(<<"Ask me about your lecture.">>), FALSE, <<>>)

HTTPX_MISSING == <<"The chat backend isn't available ... web results here.">>
BACKEND_FAILED == <<"Chat backend call failed, so I'm falling back to a simple response.",
                    "\n", "\n", "Error: ">>

\* how the POST to /chat ends: a response body with text and citations, or an exception
\* (connection error, timeout, error status, body that is not a JSON object)
BackendOutcomes ==
    {[ok |-> TRUE, text |-> <<"answer">>,
      citations |-> <<hit(<<"x">>, [title |-> PyStr(<<"A">>),
                                    section_id |-> PyStr(<<"sec-", "1">>)], PyNum(50))>>],
     [ok |-> FALSE, text |-> <<"ConnectError">>, citations |-> <<>>]}

\* answer_msg: the fixed text without httpx, the response of the backend, or the
\* fallback text with the error
answer_msg(httpx, outcome) ==
    IF ~httpx THEN PageMessage("assistant", Structured(HTTPX_MISSING), TRUE, <<>>)
    ELSE IF outcome.ok
    THEN PageMessage("assistant", Structured(outcome.text), TRUE, outcome.citations)
    ELSE PageMessage("assistant", Structured(BACKEND_FAILED \o outcome.text), TRUE, <<>>)

\* mutant: a failing backend call ends the script run before the answer is appended
prompt_messages_failure_escapes(messages, prompt, httpx, outcome) ==
    LET asked == Append(messages, PageMessage("user", Plain(prompt), FALSE, <<>>))
        answered == IF httpx /\ ~outcome.ok THEN asked
                    ELSE Append(asked, answer_msg(httpx, outcome))
    IN IF Len(answered) > ChatSizeLimit THEN LastN(answered, ChatSizeLimit) ELSE answered

\* the message list after the script run of a submitted prompt: the user turn, the
\* assistant turn, then the cut to the most recent messages
prompt_messages(messages, prompt, httpx, outcome) ==
    LET asked == Append(messages, PageMessage("user", Plain(prompt), FALSE, <<>>))
        answered == Append(asked, answer_msg(httpx, outcome))
    IN IF Len(answered) > ChatSizeLimit THEN LastN(answered, ChatSizeLimit) ELSE answered

\* the text typed as the n-th prompt of a run
PromptText(n) == <<"prompt ", ToString(n)>>

\* st.chat_input returned a prompt: the script run that handles it
submit_prompt ==
    /\ session.page = "chat"
    /\ env.prompts < MaxPrompts
    /\ \E outcome \in BackendOutcomes :
          /\ env.httpx /\ ~outcome.ok => env.failures < MaxFailures
          /\ ~env.httpx => outcome.ok
          /\ session' = [session EXCEPT !.messages =
                            prompt_messages(session.messages, PromptText(env.prompts + 1),
                                            env.httpx, outcome)]
          /\ env' = [env EXCEPT !.prompts = @ + 1,
                                !.failures = IF env.httpx /\ ~outcome.ok THEN @ + 1 ELSE @]
    /\ UNCHANGED files
    /\ UNCHANGED backendVars

\* the chat page of a new browser session: the first script run has set the greeting
InitChatPage ==
    /\ col = EmptyCol
    /\ colExists = FALSE
    /\ openai = FALSE
    /\ last = NoRequest
    /\ inflight = NoRequest
    /\ ret = NoReturn
    /\ calls = <<>>
    /\ colBefore = col
    /\ reps = 0
    /\ session = [page |-> "chat", messages |-> <<Greeting>>]
    /\ files = NoFiles
    /\ env \in {[NoEnv EXCEPT !.httpx = h] : h \in BOOLEAN}

NextChatPage == submit_prompt

SpecChatPage == InitChatPage /\ [][NextChatPage]_vars

----------------------------------------------------------------------------
(* pages/50_Quiz.py *)

\* a quiz item: an answer, and choices when it is a multiple-choice question (the order
\* the choices are shown in is left out)
QuizItem(answer, choices) == [answer |-> answer, choices |-> choices]

\* a generated quiz with a multiple-choice and a fill-in question, and the empty quiz
\* an empty backend answer gives
SampleQuiz == <<QuizItem(<<"a">>, {<<"a">>, <<"b">>}), QuizItem(<<"a">>, {})>>

QuizItemLists == {<<>>, SampleQuiz}

\* what the answer widgets ans-1, ans-2 hold: nothing chosen or typed, both right (the
\* typed one in capitals with a blank), the chosen one wrong
BlankSheet == [i \in DOMAIN SampleQuiz |-> <<>>]

AnswerSheets == {BlankSheet, <<<<"a">>, <<"A", " ">>>>, <<<<"b">>, <<"a">>>>}

\* str.lower() over the letters of the answers
lower(str) == [i \in DOMAIN str |-> IF str[i] = "A" THEN "a" ELSE IF str[i] = "B" THEN "b" ELSE str[i]]

NoScore == [graded |-> FALSE, correct |-> 0, total |-> 0, review |-> <<>>]

\* the render loop: quiz_answers[i] is the value of widget ans-i, stripped when typed
render_answers(items, widgets) ==
    [i \in DOMAIN items |-> IF items[i].choices # {} THEN widgets[i] ELSE strip(widgets[i])]

\* reset_attempt_state()
reset_attempt_state(s) ==
    [s EXCEPT !.quiz_answers = <<>>, !.quiz_submitted = FALSE, !.quiz_score = NoScore]

\* the review list the submit branch builds: one graded entry per item
review_of(items, answers) ==
    [i \in DOMAIN items |->
        LET gold == items[i].answer
            pred == IF i \in DOMAIN answers THEN answers[i] ELSE <<>>
            ok == IF items[i].choices # {} THEN pred = gold
                  ELSE lower(strip(pred)) = lower(strip(gold))
        IN [i |-> i, your |-> IF pred = <<>> THEN <<"-">> ELSE pred, answer |-> gold,
            ok |-> ok]]

CorrectIn(review) == Cardinality({i \in DOMAIN review : review[i].ok})

\* the record save_quiz_attempt appends (ids and times left out)
save_quiz_attempt(items, review) ==
    [snapshot |-> items, score_raw |-> CorrectIn(review),
     score_max |-> Max(1, Len(review)), items |-> review]

\* mutant: Submit grades and saves whether or not the quiz was submitted before
submit_result_regrades(s, f) ==
    LET answers == render_answers(s.quiz_items, s.widgets)
        review == review_of(s.quiz_items, answers)
    IN [session |-> [s EXCEPT !.quiz_answers = answers, !.quiz_submitted = TRUE,
                              !.quiz_score = [graded |-> TRUE, correct |-> CorrectIn(review),
                                              total |-> Len(s.quiz_items),
                                              review |-> review]],
        files |-> [f EXCEPT !.attempts = Append(@, save_quiz_attempt(s.quiz_items, review))]]

\* the script run of a click on Submit: render, then grade and save unless quiz_submitted
submit_result(s, f) ==
    LET answers == render_answers(s.quiz_items, s.widgets)
        review == review_of(s.quiz_items, answers)
    IN IF s.quiz_submitted
       THEN [session |-> [s EXCEPT !.quiz_answers = answers], files |-> f]
       ELSE [session |-> [s EXCEPT !.quiz_answers = answers, !.quiz_submitted = TRUE,
                                   !.quiz_score = [graded |-> TRUE,
                                                   correct |-> CorrectIn(review),
                                                   total |-> Len(s.quiz_items),
                                                   review |-> review]],
             files |-> [f EXCEPT !.attempts =
                            Append(@, save_quiz_attempt(s.quiz_items, review))]]

PageStep(op) ==
    /\ last' = [op |-> op]
    /\ UNCHANGED <<col, colExists, openai, ret, calls, colBefore, reps, inflight>>

\* Generate Quiz: the run stops before it has stored anything (no study material, a
\* response that is not a list of items), or stores the items, appends the snapshot and
\* resets the attempt; the quiz is then rendered
quiz_generate ==
    /\ session.page = "quiz"
    /\ \/ /\ UNCHANGED <<session, files>>
          /\ PageStep("quiz_generate_stopped")
       \/ /\ Len(files.snapshots) < MaxGenerates
          /\ \E items \in QuizItemLists :
                /\ session' = [reset_attempt_state(session) EXCEPT
                                  !.quiz_items = items,
                                  !.quiz_answers = render_answers(items, session.widgets)]
                /\ files' = [files EXCEPT !.snapshots = Append(@, items)]
          /\ PageStep("quiz_generate")
    /\ UNCHANGED env

\* the user changes the answer widgets of the rendered quiz
quiz_fill ==
    /\ session.page = "quiz"
    /\ session.quiz_items # <<>>
    /\ \E sheet \in AnswerSheets :
          session' = [session EXCEPT !.widgets = sheet,
                                     !.quiz_answers = render_answers(session.quiz_items, sheet)]
    /\ UNCHANGED <<files, env>>
    /\ PageStep("quiz_fill")

\* Retake / Regenerate: the quiz is rendered, then the attempt is reset
quiz_retake ==
    /\ session.page = "quiz"
    /\ session.quiz_items # <<>>
    /\ session' = reset_attempt_state(session)
    /\ UNCHANGED <<files, env>>
    /\ PageStep("quiz_retake")

\* Submit All
quiz_submit ==
    /\ session.page = "quiz"
    /\ session.quiz_items # <<>>
    /\ env.submits < MaxSubmits
    /\ LET r == submit_result(session, files)
       IN session' = r.session /\ files' = r.files
    /\ env' = [env EXCEPT !.submits = @ + 1]
    /\ PageStep("quiz_submit")

\* the quiz page of a new browser session: no quiz yet, no file written
InitQuizPage ==
    /\ col = EmptyCol
    /\ colExists = FALSE
    /\ openai = FALSE
    /\ last = NoRequest
    /\ inflight = NoRequest
    /\ ret = NoReturn
    /\ calls = <<>>
    /\ colBefore = col
    /\ reps = 0
    /\ session = [page |-> "quiz", quiz_items |-> <<>>, widgets |-> BlankSheet,
                  quiz_answers |-> <<>>, quiz_submitted |-> FALSE, quiz_score |-> NoScore]
    /\ files = NoFiles
    /\ env = NoEnv

NextQuizPage == quiz_generate \/ quiz_fill \/ quiz_retake \/ quiz_submit

SpecQuizPage == InitQuizPage /\ [][NextQuizPage]_vars

\* chat requests that are served and that are rejected, for runs that mix chat with
\* search and index_sections
MixedChatRequests ==
    {ChatRequest(<<>>, PyNone, PyNone),
     ChatRequest(<<UserBlank>>, PyNone, PyNone),
     ChatRequest(<<UserA>>, PyNone, PyNone),
     ChatRequest(<<AssistantC, UserB>>, PyNum(1), PyNum(70))}

\* the service as a whole: lectures are indexed and searches run in any order, around
\* one chat request
InitMixed ==
    /\ col \in IndexedStores
    /\ colExists = (col # EmptyCol)
    /\ openai \in BOOLEAN
    /\ last = NoRequest
    /\ inflight \in MixedChatRequests
    /\ ret = NoReturn
    /\ calls = <<>>
    /\ colBefore = col
    /\ reps = 0
    /\ NoPage

NextMixed ==
    \/ \E L \in LectureTitles : index_sections(L, Lecture)
    \/ \E q \in Queries, k \in 1..MaxTopK : search(q, k)
    \/ chat

SpecMixed == InitMixed /\ [][NextMixed]_vars

\* callers that run index_sections or search at the same time, each one stepping
\* through collection(): get_collection, create_collection when that raised, then
\* the work on the collection obtained
Callers == 1..MaxCallers

ConcurrentOps == {"index_sections", "search"}

Caller(op, pc) == [op |-> op, pc |-> pc]

StoreRequest(to, p, ok) == [to |-> to, by |-> p, ok |-> ok]

\* cli.get_collection(name): raises when no collection has that name; collection()
\* catches the exception and goes on to create
collection_get(p) ==
    /\ inflight[p].pc = "start"
    /\ inflight' = [inflight EXCEPT ![p].pc = IF colExists THEN "has_col" ELSE "get_failed"]
    /\ calls' = Append(calls, StoreRequest("get_collection", p, colExists))
    /\ UNCHANGED <<col, colExists, openai, last, ret, colBefore, reps>>
    /\ UNCHANGED pageVars

\* cli.create_collection(name) in the except branch: the store creates the collection,
\* or raises when a collection of that name exists by now; nothing catches that
collection_create(p) ==
    /\ inflight[p].pc = "get_failed"
    /\ calls' = Append(calls, StoreRequest("create_collection", p, ~colExists))
    /\ IF colExists
       THEN /\ inflight' = [inflight EXCEPT ![p].pc = "raised"]
            /\ ret' = [ret EXCEPT ![p] = Raised("raised", "collection already exists")]
            /\ UNCHANGED colExists
       ELSE /\ inflight' = [inflight EXCEPT ![p].pc = "has_col"]
            /\ colExists' = TRUE
            /\ UNCHANGED ret
    /\ UNCHANGED <<col, openai, last, colBefore, reps>>
    /\ UNCHANGED pageVars

\* the rest of index_sections or search, on the collection obtained
collection_use(p) ==
    /\ inflight[p].pc = "has_col"
    /\ inflight' = [inflight EXCEPT ![p].pc = "done"]
    /\ IF inflight[p].op = "index_sections"
       THEN /\ col' = index_sections_result(col, <<"A">>, Lecture)
            /\ ret' = [ret EXCEPT ![p] = Returned(<<>>, <<>>)]
       ELSE /\ \E res \in QueryResults(col, 1) :
                  ret' = [ret EXCEPT ![p] = Returned(<<>>, search_hits(res))]
            /\ UNCHANGED col
    /\ UNCHANGED <<colExists, openai, last, calls, colBefore, reps>>
    /\ UNCHANGED pageVars

InitCol ==
    /\ col = EmptyCol
    /\ colExists = FALSE
    /\ openai = FALSE
    /\ last = NoRequest
    /\ inflight \in [Callers -> {Caller(op, "start") : op \in ConcurrentOps}]
    /\ ret = [p \in Callers |-> NoReturn]
    /\ calls = <<>>
    /\ colBefore = col
    /\ reps = 0
    /\ NoPage

NextCol == \E p \in Callers : collection_get(p) \/ collection_create(p) \/ collection_use(p)

SpecCol == InitCol /\ [][NextCol]_vars

----------------------------------------------------------------------------
(* Properties *)

\* the entry index_sections(title, ...) is to store for section sec
EntryFor(title, sec) ==
    [id |-> sec.id, document |-> sec.content,
     metadata |-> [title |-> PyStr(title), section_id |-> PyStr(sec.id)]]

IndexedTwice == last.op = "index_sections" /\ reps = 2

\* C1: after index_sections(L, S) is called twice in a row with the same arguments, the
\* collection holds exactly one entry under each section id of S, that entry is the one
\* made of the second call's input, and the collection has as many entries as after the
\* first call.
C1_ReindexIdempotent ==
    IndexedTwice =>
        /\ \A i \in DOMAIN last.sections :
              /\ CountOf(col, last.sections[i].id) = 1
              /\ EntriesOf(col, last.sections[i].id) = {EntryFor(last.title, last.sections[i])}
        /\ BagCardinality(col) = BagCardinality(colBefore)

C1_Witness ==
    /\ IndexedTwice
    /\ Len(last.sections) = 2
    /\ BagCardinality(col) = 2

IndexedIds == {last.sections[i].id : i \in DOMAIN last.sections}

\* C2: index_sections(L, S) changes only entries stored under a section id of S: an entry
\* under any other id is in the collection afterwards exactly as before (same document,
\* same metadata, same number of copies), none appears under another id, and every id
\* that had an entry still has one.
C2_IndexFrame ==
    last.op = "index_sections" =>
        /\ \A e \in BagToSet(colBefore) \cup BagToSet(col) :
              e.id \notin IndexedIds => CopiesIn(e, col) = CopiesIn(e, colBefore)
        /\ \A e \in BagToSet(colBefore) : CountOf(col, e.id) >= 1

C2_Witness ==
    /\ last.op = "index_sections"
    /\ \E e \in BagToSet(colBefore) : e.id \notin IndexedIds /\ BagIn(e, col)
    /\ \E e \in BagToSet(colBefore) : e.id \in IndexedIds /\ ~BagIn(e, col)

ChatDone == last.op = "chat"

\* the chat request was served: it passed the checks and the store was queried
ChatServed == ChatDone /\ calls # <<>>

\* the text of a message content: the string itself, or the text field of a structured value
TextOf(content) ==
    IF content.kind = "dict" /\ ~content.has_text THEN <<>> ELSE content.text

IsUserQuestion(m) == m.role = "user" /\ strip(TextOf(m.content)) # <<>>

\* C3: the chat handler answers 400, with no text and no citations, when messages is empty
\* and when no message has role user with non-empty stripped content (structured content
\* read through its text field).
C3_RejectsWithoutQuestion ==
    (ChatDone /\ \A i \in DOMAIN last.messages : ~IsUserQuestion(last.messages[i])) =>
        /\ ret.status = "400"
        /\ ret.text = <<>>
        /\ ret.hits = <<>>

C3_Witness ==
    /\ ChatDone
    /\ last.messages = <<AssistantC, UserBlank>>
    /\ ret.status = "400"

\* the top_k the claim C4 expects for a requested value
ExpectedTopK(v) ==
    IF v.t = "num" THEN (IF v.n < 1 THEN 1 ELSE IF v.n > 15 THEN 15 ELSE v.n) ELSE 5

\* C4: the top_k handed to the Retriever is the requested integer clamped into [1, 15]
\* (below 1 becomes 1, above 15 becomes 15); a missing or non-numeric top_k becomes 5, and
\* in no case does top_k make the request fail.
C4_TopKClamped ==
    ChatServed => calls[1].top_k = ExpectedTopK(last.top_k)

\* hits were retrieved, then the model call of the request was made and raised
GenerationFailed ==
    ChatServed /\ calls[1].hits # <<>> /\ Len(calls) = 2 /\ ~calls[2].ok

RECURSIVE Contains(_, _)
\* text holds part as a contiguous run
Contains(text, part) ==
    IF Len(part) > Len(text) THEN FALSE
    ELSE FirstN(text, Len(part)) = part \/ Contains(Tail(text), part)

\* C5: when the model call fails after retrieval succeeded, the chat request still ends
\* with a response: its citations are the retrieved hits and its text holds the context.
C5_GenerationFailureDegrades ==
    GenerationFailed =>
        /\ ret.status = "ok"
        /\ ret.hits = calls[1].hits
        /\ Contains(ret.text, build_context_block(calls[1].hits))

UserPositions(messages) == {i \in DOMAIN messages : messages[i].role = "user"}

\* the position of the last user message
LastUserPosition(messages) ==
    CHOOSE i \in UserPositions(messages) : \A j \in UserPositions(messages) : j <= i

\* C6: the question of a served chat request is the content of the last message whose
\* role is user (its text field when structured), whatever comes after it and whatever
\* user messages come before it; it is the question retrieved with and the one the model
\* is asked.
C6_QuestionIsLastUserMessage ==
    ChatServed =>
        LET question == TextOf(last.messages[LastUserPosition(last.messages)].content)
        IN /\ UserPositions(last.messages) # {}
           /\ calls[1].question = question
           /\ Len(calls) = 2 =>
                 LET p == calls[2].payload
                 IN LastN(p[Len(p)].content, Len(question)) = question

C6_Witness ==
    /\ ChatServed
    /\ Len(calls) = 2
    /\ \E i, j \in UserPositions(last.messages) :
          i < j /\ TextOf(last.messages[i].content) # TextOf(last.messages[j].content)

GenerateDone == last.op = "llm_answer"

\* C7: for a history of n messages, the request built by the Generator holds, after its
\* two system messages, exactly the last min(n, 8) messages of the history in their
\* order, whatever their roles, and then one more message; older messages are dropped.
C7_HistoryWindow ==
    (GenerateDone /\ calls # <<>>) =>
        LET p == calls[1].payload
            n == Len(last.history)
            k == IF n < 8 THEN n ELSE 8
        IN /\ Len(p) = k + 3
           /\ \A j \in 1..k :
                 /\ p[2 + j].role = last.history[n - k + j].role
                 /\ p[2 + j].content = TextOf(last.history[n - k + j].content)

C7_Witness ==
    /\ GenerateDone
    /\ calls # <<>>
    /\ Len(last.history) > 8

\* C8: the request sent to a configured model is, in this order: the system policy, one
\* system message ending with context_block verbatim, the trimmed history (each message
\* its role and its content as a string: the text field of a structured content, or the
\* empty string), and a final user message ending with the question verbatim; it has
\* min(len(history), 8) + 3 messages.
C8_RequestShape ==
    (GenerateDone /\ calls # <<>>) =>
        LET p == calls[1].payload
            n == Len(last.history)
            k == IF n < 8 THEN n ELSE 8
        IN /\ Len(p) = k + 3
           /\ p[1] = [role |-> "system", content |-> SYSTEM_PROMPT]
           /\ p[2].role = "system"
           /\ Len(p[2].content) > Len(last.context_block)
           /\ LastN(p[2].content, Len(last.context_block)) = last.context_block
           /\ \A j \in 1..k :
                 LET m == last.history[n - k + j]
                 IN p[2 + j] = [role |-> m.role,
                               content |-> IF m.content.kind = "str" THEN m.content.text
                                           ELSE IF m.content.has_text THEN m.content.text
                                           ELSE <<>>]
           /\ p[k + 3].role = "user"
           /\ Len(p[k + 3].content) > Len(last.question)
           /\ LastN(p[k + 3].content, Len(last.question)) = last.question

C8_Witness ==
    /\ GenerateDone
    /\ calls # <<>>
    /\ last.context_block # <<>>
    /\ \E i \in DOMAIN last.history : last.history[i].content.kind = "dict"
    /\ \E i \in DOMAIN last.history : last.history[i].content = StructuredNoText

\* C9: with no model configured the Generator neither raises nor calls a model; it
\* returns the fixed sentence for an empty context_block, and the fixed preamble followed
\* by context_block otherwise, whatever the question, the history and the temperature.
C9_FallbackText ==
    (GenerateDone /\ ~openai) =>
        /\ ret.status = "ok"
        /\ calls = <<>>
        /\ ret.text =
             IF last.context_block = <<>>
             THEN <<"I could not find any relevant information in the lecture notes.">>
             ELSE <<"Model access is not configured. But based on your notes:", "\n", "\n">>
                  \o last.context_block

C9_Witness ==
    /\ GenerateDone
    /\ ~openai
    /\ last.context_block # <<>>
    /\ last.history # <<>>
    /\ Contains(ret.text, last.context_block)

\* C10: the citations of a successful chat response are the hits retrieved for that
\* request: the same hits in the same order, whatever the answer text is.
C10_CitationsAreHits ==
    (ChatServed /\ ret.status = "ok") => ret.hits = calls[1].hits

C10_Witness ==
    /\ ChatServed
    /\ ret.status = "ok"
    /\ Len(ret.hits) = 2
    /\ ret.hits[1].score.t = "none"
    /\ ret.text = <<"answer">>

CallsTo(name) == {i \in DOMAIN calls : calls[i].to = name}

\* C11: a chat request that passes validation makes exactly one search, with the
\* extracted question, and it comes first; the model, when configured, is called once and
\* after it; and the context the Generator works from is build_context of exactly the
\* hits that search returned (it is what the model request embeds, or what the fallback
\* text dumps).
C11_RetrieveThenGenerate ==
    ChatServed =>
        LET question == TextOf(last.messages[LastUserPosition(last.messages)].content)
            context_block == build_context_block(calls[1].hits)
        IN /\ CallsTo("store.query") = {1}
           /\ calls[1].question = question
           /\ CallsTo("openai.create") = (IF openai THEN {2} ELSE {})
           /\ Len(calls) = (IF openai THEN 2 ELSE 1)
           /\ openai =>
                 calls[2].payload[2].content
                     = <<"CONTEXT FROM NOTES:", "\n", "\n">> \o context_block
           /\ (~openai /\ context_block # <<>>) =>
                 LastN(ret.text, Len(context_block)) = context_block

C11_Witness ==
    /\ ChatServed
    /\ Len(calls) = 2
    /\ Len(calls[1].hits) = 2

\* the temperature the claim C12 expects for a requested value
ExpectedTemperature(v) == IF v.t = "num" THEN v.n ELSE 20

\* C12: the temperature passed to the model is the one the chat request gives, for every
\* value in [0, 1], 0 included; only a missing temperature becomes 0.2.
C12_TemperaturePassedOn ==
    (ChatServed /\ Len(calls) = 2) =>
        calls[2].temperature = ExpectedTemperature(last.temperature)

\* the model was called by _llm_answer and the call raised
ModelCallRaised == GenerateDone /\ calls # <<>> /\ ~calls[1].ok

\* C13: with a model configured, a failing model call is not swallowed by the Generator:
\* _llm_answer returns no text and the failure leaves it as an error.
C13_FailurePropagates ==
    ModelCallRaised =>
        /\ ret.status = "raised"
        /\ ret.text = <<>>

C13_Witness ==
    /\ ModelCallRaised
    /\ last.context_block # <<>>
    /\ openai

SearchDone == last.op = "search"

\* C14: search returns one Hit per result of the store, in the store's order: the i-th
\* Hit carries the i-th result's document and metadata (section id and title).
C14_HitsFollowStoreOrder ==
    SearchDone =>
        LET res == calls[1].res
        IN /\ Len(ret.hits) = Len(res.documents)
           /\ \A i \in DOMAIN ret.hits :
                 /\ ret.hits[i].document = PyStr(res.documents[i])
                 /\ ret.hits[i].section_id = res.metadatas[i].section_id
                 /\ ret.hits[i].source = res.metadatas[i].title

C14_Witness ==
    /\ SearchDone
    /\ Len(ret.hits) >= 2
    /\ ret.hits[1].document # ret.hits[2].document
    /\ ret.hits[1].section_id = PyStr(<<"sec-", "2">>)
    /\ ret.hits[2].section_id = PyStr(<<"sec-", "1">>)

\* C15: the score of every Hit is 1 - distance of the store result it was made of, and
\* null when the store reported no distance.
C15_ScoreFromDistance ==
    SearchDone =>
        LET res == calls[1].res
        IN \A i \in DOMAIN ret.hits :
             ret.hits[i].score =
                 IF res.has_distances THEN PyNum(100 - res.distances[i]) ELSE PyNone

C15_Witness ==
    /\ SearchDone
    /\ calls[1].res.has_distances
    /\ Len(ret.hits) >= 2
    /\ calls[1].res.distances[1] = 0
    /\ calls[1].res.distances[2] = 50
    /\ ret.hits[2].score = PyNum(50)

\* C16: the score of every Hit is null or lies in [0, 1], whatever distance the store
\* reports.
C16_ScoreInUnitRange ==
    SearchDone =>
        \A i \in DOMAIN ret.hits :
            \/ ret.hits[i].score.t = "none"
            \/ ret.hits[i].score.n >= 0 /\ ret.hits[i].score.n <= 100

\* C17: of two Hits of one search, the earlier one has a score at least that of the later
\* one, when both scores are non-null.
C17_ScoresDoNotIncrease ==
    SearchDone =>
        \A i, j \in DOMAIN ret.hits :
            (i < j /\ ret.hits[i].score.t = "num" /\ ret.hits[j].score.t = "num")
                => ret.hits[i].score.n >= ret.hits[j].score.n

C17_Witness ==
    /\ SearchDone
    /\ Len(ret.hits) >= 2
    /\ ret.hits[1].score.t = "num"
    /\ ret.hits[2].score.t = "num"
    /\ ret.hits[1].score.n > ret.hits[2].score.n

\* C18: the snippet of every Hit is the first 280 characters of its document, followed by
\* the one-character marker exactly when the document is longer than 280 characters; it
\* is never longer than 281.
C18_SnippetBound ==
    SearchDone =>
        \A i \in DOMAIN ret.hits :
            LET doc == calls[1].res.documents[i]
                snippet == ret.hits[i].snippet.s
                kept == IF Len(doc) < 280 THEN Len(doc) ELSE 280
            IN /\ Len(snippet) <= 281
               /\ SubSeq(snippet, 1, kept) = SubSeq(doc, 1, kept)
               /\ Len(doc) > 280 => (Len(snippet) = 281 /\ snippet[281] = Ellipsis)
               /\ Len(doc) <= 280 => Len(snippet) = Len(doc)

C18_Witness ==
    /\ SearchDone
    /\ \E i, j \in DOMAIN ret.hits :
          /\ Len(calls[1].res.documents[i]) = 280
          /\ Len(ret.hits[i].snippet.s) = 280
          /\ Len(calls[1].res.documents[j]) = 281
          /\ Len(ret.hits[j].snippet.s) = 281

\* C19: after index_sections(L, S), every Hit search returns for an entry that call
\* wrote has the section's id as section_id, the section's content as document and L as
\* source.
C19_HitsCarryIndexedSection ==
    SearchDone =>
        \A ic \in IndexCalls :
            col = index_sections_result(ic.before, ic.title, ic.sections) =>
                \A i \in DOMAIN ret.hits, j \in DOMAIN ic.sections :
                    ret.hits[i].section_id = PyStr(ic.sections[j].id) =>
                        /\ ret.hits[i].document = PyStr(ic.sections[j].content)
                        /\ ret.hits[i].source = PyStr(ic.title)

C19_Witness ==
    /\ SearchDone
    /\ col = index_sections_result(index_sections_result(EmptyCol, <<"A">>, Lecture),
                                   <<"B">>, <<Section(<<"sec-", "1">>, <<"y">>)>>)
    /\ Len(ret.hits) = 2
    /\ ret.hits[1].source = PyStr(<<"B">>)
    /\ ret.hits[1].document = PyStr(<<"y">>)
    /\ ret.hits[2].source = PyStr(<<"A">>)

BuildContextDone == last.op = "build_context"

RECURSIVE PartOffset(_, _)
\* how many tokens of the block precede the part of the N-th hit
PartOffset(hits, N) ==
    IF N = 1 THEN 0
    ELSE PartOffset(hits, N - 1) + Len(context_part(N - 1, hits[N - 1])) + 2

\* the start of the header C20 expects for the N-th hit h
ExpectedHeader(N, h) ==
    <<"[">>
    \o (IF h.section_id.t \in {"absent", "none"} THEN <<"match-", ToString(N)>>
        ELSE h.section_id.s)
    \o <<" | ">>
    \o (IF h.source.t = "absent" THEN <<"Notes">> ELSE h.source.s)
    \o (IF h.score.t \in {"absent", "none"} THEN <<"]">> ELSE <<" | score=">>)

\* C20: the header of the N-th hit starts with the hit's section_id, or "match-N" when
\* the section_id is absent or null, then the hit's source, or "Notes" when it is absent,
\* and goes on with " | score=" exactly when the score is non-null.
C20_HeaderFields ==
    BuildContextDone =>
        \A N \in DOMAIN last.hits :
            LET expected == ExpectedHeader(N, last.hits[N])
                from == PartOffset(last.hits, N)
            IN /\ Len(ret.text) >= from + Len(expected)
               /\ SubSeq(ret.text, from + 1, from + Len(expected)) = expected

\* C21: build_context returns the empty string exactly when the hit sequence is empty,
\* so the fallback of the Generator answers with its no-information sentence exactly
\* when there were no hits.
C21_EmptyIffNoHits ==
    BuildContextDone =>
        /\ (ret.text = <<>>) <=> (last.hits = <<>>)
        /\ (strip(ret.text) = <<>>) <=> (last.hits = <<>>)
        /\ (llm_fallback(ret.text) = NO_INFO) <=> (last.hits = <<>>)

\* a call with hits whose bodies are all empty has returned a block that is not empty
C21_Witness ==
    /\ BuildContextDone
    /\ last.hits # <<>>
    /\ \A i \in DOMAIN last.hits : context_body(last.hits[i]) = <<>>
    /\ ret.text # <<>>
    /\ llm_fallback(ret.text) # NO_INFO

ExpectedBody(h) ==
    IF h.document.t # "absent" THEN h.document.s
    ELSE IF h.snippet.t # "absent" THEN h.snippet.s
    ELSE <<>>

\* how many header openings the text holds
HeaderCount(text) == Cardinality({i \in DOMAIN text : text[i] = "["})

\* C23: the block has one headered part per hit, the part of hit i before the part of
\* hit j when i < j, and the body of each part is the hit's document, or its snippet
\* when the hit has no document.
C23_OneBlockPerHitInOrder ==
    BuildContextDone =>
        /\ HeaderCount(ret.text) = Len(last.hits)
        /\ \A N \in DOMAIN last.hits :
              LET h == last.hits[N]
                  from == PartOffset(last.hits, N)
                  body == from + Len(context_header(N, h)) + 1
                  stop == body + Len(ExpectedBody(h)) + 1
              IN /\ Len(ret.text) >= stop
                 /\ ret.text[from + 1] = "["
                 /\ ret.text[body] = "\n"
                 /\ SubSeq(ret.text, body + 1, stop - 1) = ExpectedBody(h)
                 /\ ret.text[stop] = "\n"
                 /\ N = Len(last.hits) => Len(ret.text) = stop

\* a block has been built from a hit without a document followed by a hit with another body
C23_Witness ==
    /\ BuildContextDone
    /\ Len(last.hits) >= 2
    /\ last.hits[1].document.t = "absent"
    /\ last.hits[2].document.t = "str"
    /\ ExpectedBody(last.hits[1]) # ExpectedBody(last.hits[2])
    /\ Contains(ret.text, <<"\n">> \o ExpectedBody(last.hits[1]) \o <<"\n">>)

\* the requests of that kind the store has carried out
Created == {i \in DOMAIN calls : calls[i].to = "create_collection" /\ calls[i].ok}

\* C24: with the collection absent at the start, every concurrent caller gets the
\* collection without an error, and once all callers are through exactly one
\* collection has been created.
C24_LazyCreationSafe ==
    /\ \A p \in Callers : ret[p].status = "ok" /\ inflight[p].pc # "raised"
    /\ (\A p \in Callers : inflight[p].pc = "done") =>
           colExists /\ Cardinality(Created) = 1

\* C25: a step made by search or by chat, served or rejected, leaves the entries of the
\* collection as they were; the collection changes only in steps of index_sections.
C25_QueriesLeaveEntries ==
    [][/\ last'.op \in {"search", "chat"} => col' = col
       /\ col' # col => last'.op = "index_sections"]_vars

\* a search has returned hits after the chat request was handled, on a collection that
\* holds the lecture as indexed
C25_Witness ==
    /\ SearchDone
    /\ inflight = NoRequest
    /\ ret.hits # <<>>
    /\ col \in {index_sections_result(EmptyCol, L, Lecture) : L \in LectureTitles}
    /\ col = colBefore

\* C26: after any sequence of index_sections calls the collection holds at most one
\* entry under each id, and each section of the last call is stored with the document
\* and the title of that call, whichever lecture held the id before.
C26_IdsUniqueAcrossLectures ==
    /\ \A id \in SectionIds : CountOf(col, id) <= 1
    /\ last.op = "index_sections" =>
          \A i \in DOMAIN last.sections :
              EntriesOf(col, last.sections[i].id) = {EntryFor(last.title, last.sections[i])}

\* lecture B has been indexed with a section id that lecture A held with another document
C26_Witness ==
    /\ last.op = "index_sections"
    /\ last.title = <<"B">>
    /\ \E i \in DOMAIN last.sections :
          /\ \E e \in EntriesOf(colBefore, last.sections[i].id) :
                /\ e.metadata.title = PyStr(<<"A">>)
                /\ e.document # last.sections[i].content
          /\ EntriesOf(col, last.sections[i].id) = {EntryFor(<<"B">>, last.sections[i])}

ChatRejected == ChatDone /\ ret.status = "400"

\* C27: a chat request answered with 400 has made no call to the store and no call to
\* the model, and has not even made the collection exist.
C27_RejectedBeforeAnyCall ==
    ChatRejected =>
        /\ calls = <<>>
        /\ CallsTo("store.query") = {} /\ CallsTo("openai.create") = {}
        /\ colExists = (col # EmptyCol)

\* a request without a question has been rejected with a model configured and with the
\* lecture indexed
C27_Witness ==
    /\ ChatRejected
    /\ ret.detail = "Empty question."
    /\ openai
    /\ col # EmptyCol
    /\ calls = <<>>

\* C28: a chat request whose last user message is empty or whitespace is answered with
\* 400 whatever the earlier user messages hold, and the question a served request is
\* retrieved with is never empty or whitespace-only.
C28_LastUserMessageDecides ==
    /\ (/\ ChatDone
        /\ UserPositions(last.messages) # {}
        /\ ~IsUserQuestion(last.messages[LastUserPosition(last.messages)]))
           => ret.status = "400" /\ calls = <<>>
    /\ ChatServed => strip(calls[1].question) # <<>>

\* a request whose last user message is blank has been rejected although an earlier one
\* asks a question
C28_Witness ==
    /\ ChatRejected
    /\ Len(last.messages) >= 2
    /\ IsUserQuestion(last.messages[1])
    /\ last.messages[Len(last.messages)] \in {UserBlank, UserNoText}

\* C29: the script run of a submitted prompt appends one user message and then one
\* assistant message and cuts the list to its most recent 60 messages, whether httpx is
\* there or not and whether the backend call fails or not; the list never has more than
\* 60 messages and always ends with an assistant message.
C29_PromptAppendsOnePair ==
    /\ [][env'.prompts = env.prompts + 1 =>
             LET new == session'.messages
                 u == new[Len(new) - 1]
                 a == new[Len(new)]
             IN /\ Len(new) >= 2
                /\ u = PageMessage("user", Plain(PromptText(env'.prompts)), FALSE, <<>>)
                /\ a.role = "assistant"
                /\ new = LastN(session.messages \o <<u, a>>, ChatSizeLimit)]_vars
    /\ [](session.page = "chat" =>
             /\ Len(session.messages) <= ChatSizeLimit
             /\ session.messages[Len(session.messages)].role = "assistant")

\* the list has been cut: it holds 60 messages, the oldest a user message, among them the
\* answer to a failed backend call
C29_Witness ==
    /\ session.page = "chat"
    /\ Len(session.messages) = ChatSizeLimit
    /\ session.messages[1].role = "user"
    /\ env.failures > 0
    /\ \E i \in DOMAIN session.messages :
          /\ session.messages[i].role = "assistant"
          /\ FirstN(session.messages[i].content.text, Len(BACKEND_FAILED)) = BACKEND_FAILED

\* a click on Submit is handled in this step
SubmitStep == env'.submits = env.submits + 1

====
